---------------------------- MODULE Spec2Model ----------------------------
(***************************************************************************)
(* Model of the mock fraud-detection scoring code:                         *)
(*   - detectFraud   (client-side mock, lib/fraud-detection)               *)
(*   - handler       (Lambda-style request handler and its helpers)        *)
(*   - the dashboard (FraudDetectionDashboard: handleInputChange and       *)
(*                    handleDetect), a specification of its own            *)
(*                                                                         *)
(* Numbers.  A JavaScript number is modelled as an exact rational          *)
(* [nan, num, den] in lowest terms (den > 0), or NaN.  Arithmetic is exact *)
(* rational arithmetic; IEEE-754 rounding is not modelled.  Every          *)
(* comparison with NaN is false, as in JavaScript.                         *)
(*                                                                         *)
(* Randomness.  One call of Math.random() is a nondeterministic choice of  *)
(* k/steps with k in 0..steps-1, a value of [0,1).                         *)
(***************************************************************************)
EXTENDS Integers, Sequences, FiniteSets

-----------------------------------------------------------------------------
(* Bounds of the model.                                                    *)

\* grid of the Math.random() draw that decides the verdict in detectFraud
VerdictSteps == 40
\* grid of the other Math.random() draws of detectFraud and of the
\* processing-time draws of handler
RandSteps == 3
\* grid of the Math.random() draws behind the six risk sub-scores
SubSteps == 2

-----------------------------------------------------------------------------
(* JavaScript numbers as exact rationals.                                  *)

Abs(n) == IF n < 0 THEN -n ELSE n

RECURSIVE GCD(_, _)
GCD(a, b) == IF b = 0 THEN a ELSE GCD(b, a % b)

\* the number n/d (d > 0) in lowest terms
Num(n, d) ==
    LET g == GCD(Abs(n), d)
    IN  [nan |-> FALSE, num |-> n \div g, den |-> d \div g]

NaN == [nan |-> TRUE, num |-> 0, den |-> 1]

Add(a, b) == IF a.nan \/ b.nan THEN NaN
             ELSE Num(a.num * b.den + b.num * a.den, a.den * b.den)
Sub(a, b) == IF a.nan \/ b.nan THEN NaN
             ELSE Num(a.num * b.den - b.num * a.den, a.den * b.den)
Mul(a, b) == IF a.nan \/ b.nan THEN NaN
             ELSE Num(a.num * b.num, a.den * b.den)
\* a / b for b > 0
Div(a, b) == IF a.nan \/ b.nan THEN NaN
             ELSE Num(a.num * b.den, a.den * b.num)

\* a > b, a < b, a >= b, a <= b: false when either side is NaN
Gt(a, b) == ~a.nan /\ ~b.nan /\ a.num * b.den > b.num * a.den
Lt(a, b) == ~a.nan /\ ~b.nan /\ a.num * b.den < b.num * a.den
Ge(a, b) == ~a.nan /\ ~b.nan /\ a.num * b.den >= b.num * a.den
Le(a, b) == ~a.nan /\ ~b.nan /\ a.num * b.den =< b.num * a.den

\* Math.max, Math.min (NaN if either argument is NaN)
MathMax(a, b) == IF a.nan \/ b.nan THEN NaN ELSE IF Gt(b, a) THEN b ELSE a
MathMin(a, b) == IF a.nan \/ b.nan THEN NaN ELSE IF Lt(b, a) THEN b ELSE a

\* the possible values of one Math.random() call on a grid of `steps` points
MathRandom(steps) == { Num(k, steps) : k \in 0..(steps - 1) }

-----------------------------------------------------------------------------
(* Number.parseFloat on strings, a string being a sequence of characters.  *)
(* Leading blanks are skipped, then an optional sign, digits, and an       *)
(* optional fraction are read; anything after the longest such prefix is   *)
(* ignored; with no digit at all the result is NaN.  Exponents and         *)
(* "Infinity" are not modelled (no input of the model uses them).          *)

DigitChars == <<"0", "1", "2", "3", "4", "5", "6", "7", "8", "9">>
IsDigit(c) == \E i \in 1..10 : DigitChars[i] = c
DigitValue(c) == (CHOOSE i \in 1..10 : DigitChars[i] = c) - 1

RECURSIVE TrimStart(_)
TrimStart(s) == IF s # <<>> /\ Head(s) = " " THEN TrimStart(Tail(s)) ELSE s

RECURSIVE DigitPrefixLen(_)
DigitPrefixLen(s) ==
    IF s # <<>> /\ IsDigit(Head(s)) THEN 1 + DigitPrefixLen(Tail(s)) ELSE 0

\* the value of the first n characters of s, all digits, read in base ten
RECURSIVE DigitsValue(_, _)
DigitsValue(s, n) ==
    IF n = 0 THEN 0 ELSE 10 * DigitsValue(s, n - 1) + DigitValue(s[n])

RECURSIVE Pow10(_)
Pow10(n) == IF n = 0 THEN 1 ELSE 10 * Pow10(n - 1)

parseFloat(s) ==
    LET t        == TrimStart(s)
        signed   == t # <<>> /\ Head(t) \in {"-", "+"}
        negative == t # <<>> /\ Head(t) = "-"
        u        == IF signed THEN Tail(t) ELSE t
        ni       == DigitPrefixLen(u)
        rest     == SubSeq(u, ni + 1, Len(u))
        f        == IF rest # <<>> /\ Head(rest) = "." THEN Tail(rest) ELSE <<>>
        nf       == DigitPrefixLen(f)
        mag      == DigitsValue(u, ni) * Pow10(nf) + DigitsValue(f, nf)
    IN  IF ni = 0 /\ nf = 0 THEN NaN
        ELSE Num(IF negative THEN -mag ELSE mag, Pow10(nf))


-----------------------------------------------------------------------------
(* Inputs.                                                                 *)

\* amount strings: "abc", "", "0", "50", "1000", "1000.5", "1250.00",
\* "5000", "5000.01", "-5"
Amounts ==
    { <<"a", "b", "c">>,
      <<>>,
      <<"0">>,
      <<"5", "0">>,
      <<"1", "0", "0", "0">>,
      <<"1", "0", "0", "0", ".", "5">>,
      <<"1", "2", "5", "0", ".", "0", "0">>,
      <<"5", "0", "0", "0">>,
      <<"5", "0", "0", "0", ".", "0", "1">>,
      <<"-", "5">> }

\* a TransactionData; only `amount` has an effect on the scoring
TransactionData(a) ==
    [amount     |-> a,
     merchantId |-> "MERCH-8765",
     customerId |-> "CUST-1234",
     location   |-> "New York, USA",
     deviceId   |-> "DEV-5678",
     ipAddress  |-> "192.168.1.1",
     timestamp  |-> "ISO"]

Transactions == { TransactionData(a) : a \in Amounts }

-----------------------------------------------------------------------------
(* detectFraud: the client-side mock.                                      *)

\* the branch of the if-chain on the amount (lines 17, 21, 25); NaN fails
\* both comparisons and takes the last branch
\* variant: the first comparison is >= 5000 (C4 must tell it apart)
detectFraud_tier_ge5000(amount) ==
    IF Ge(amount, Num(5000, 1)) THEN "high"
    ELSE IF Gt(amount, Num(1000, 1)) THEN "medium"
    ELSE "low"

\* variant: the second comparison is >= 1000 (C5 must tell it apart)
detectFraud_tier_ge1000(amount) ==
    IF Gt(amount, Num(5000, 1)) THEN "high"
    ELSE IF Ge(amount, Num(1000, 1)) THEN "medium"
    ELSE "low"

detectFraud_tier(amount) ==
    IF Gt(amount, Num(5000, 1)) THEN "high"
    ELSE IF Gt(amount, Num(1000, 1)) THEN "medium"
    ELSE "low"

\* isFraudulent = Math.random() > 0.7, > 0.9 or > 0.95
\* variant: the draw is compared with >= (C6 must tell it apart)
detectFraud_isFraudulent_ge(tier, r) ==
    IF tier = "high" THEN Ge(r, Num(7, 10))
    ELSE IF tier = "medium" THEN Ge(r, Num(9, 10))
    ELSE Ge(r, Num(95, 100))

detectFraud_isFraudulent(tier, r) ==
    IF tier = "high" THEN Gt(r, Num(7, 10))
    ELSE IF tier = "medium" THEN Gt(r, Num(9, 10))
    ELSE Gt(r, Num(95, 100))

\* confidence = isFraudulent ? a + Math.random() * b : c + Math.random() * d
\* variant: the arms of the conditional are exchanged (C3)
detectFraud_highConfidence_swapped(isFraudulent, r) ==
    IF isFraudulent THEN Add(Num(75, 1), Mul(r, Num(15, 1)))
                    ELSE Add(Num(85, 1), Mul(r, Num(10, 1)))

detectFraud_highConfidence(isFraudulent, r) ==
    IF isFraudulent THEN Add(Num(85, 1), Mul(r, Num(10, 1)))
                    ELSE Add(Num(75, 1), Mul(r, Num(15, 1)))

detectFraud_mediumConfidence(isFraudulent, r) ==
    IF isFraudulent THEN Add(Num(90, 1), Mul(r, Num(5, 1)))
                    ELSE Add(Num(85, 1), Mul(r, Num(10, 1)))

\* variant: the spans 5 and 8 are exchanged (C1)
detectFraud_lowConfidence_wide(isFraudulent, r) ==
    IF isFraudulent THEN Add(Num(95, 1), Mul(r, Num(8, 1)))
                    ELSE Add(Num(90, 1), Mul(r, Num(5, 1)))

detectFraud_lowConfidence(isFraudulent, r) ==
    IF isFraudulent THEN Add(Num(95, 1), Mul(r, Num(5, 1)))
                    ELSE Add(Num(90, 1), Mul(r, Num(8, 1)))

detectFraud_processingTime(r) == Add(Num(100, 1), Mul(r, Num(150, 1)))

\* variant: base 50 instead of 60 (C7)
detectFraud_quantumContribution_low(r) == Add(Num(50, 1), Mul(r, Num(25, 1)))

detectFraud_quantumContribution(r) == Add(Num(60, 1), Mul(r, Num(25, 1)))

\* rnd: the four Math.random() results, in the order the calls are made
detectFraud(t, rnd) ==
    LET amount       == parseFloat(t.amount)
        tier         == detectFraud_tier(amount)
        isFraudulent == detectFraud_isFraudulent(tier, rnd[1])
        confidence   ==
            IF tier = "high" THEN detectFraud_highConfidence(isFraudulent, rnd[2])
            ELSE IF tier = "medium"
                 THEN detectFraud_mediumConfidence(isFraudulent, rnd[2])
            ELSE detectFraud_lowConfidence(isFraudulent, rnd[2])
    IN  [isFraudulent        |-> isFraudulent,
         confidence          |-> confidence,
         processingTime      |-> detectFraud_processingTime(rnd[3]),
         quantumContribution |-> detectFraud_quantumContribution(rnd[4])]

-----------------------------------------------------------------------------
(* handler: events, JSON and the helpers.                                  *)

\* The events handler is called with:
\*   noEvent        event is null or undefined
\*   noBody         event.body is undefined
\*   badJson        event.body is text that is not JSON
\*   jsonNull       event.body is the JSON text null
\*   jsonPrimitive  event.body is a JSON number, string or boolean
\*   objectNoAmount event.body is the JSON object {}: no amount, no identifier
\*   object         event.body is a JSON TransactionData, amount a string
Events ==
    { [kind |-> k, amount |-> <<>>] :
        k \in {"noEvent", "noBody", "badJson", "jsonNull", "jsonPrimitive",
               "objectNoAmount"} }
    \cup { [kind |-> "object", amount |-> a] : a \in Amounts }

\* JSON.parse(event.body): throws (TypeError reading body of no event,
\* SyntaxError otherwise) or yields the parsed value
JSONparse(e) ==
    IF e.kind \in {"noEvent", "noBody", "badJson"}
    THEN [throws |-> TRUE, value |-> [type |-> "undefined"]]
    ELSE IF e.kind = "jsonNull"
    THEN [throws |-> FALSE, value |-> [type |-> "null"]]
    ELSE IF e.kind = "jsonPrimitive"
    THEN [throws |-> FALSE, value |-> [type |-> "primitive"]]
    ELSE IF e.kind = "objectNoAmount"
    THEN [throws |-> FALSE, value |-> [type |-> "object", fields |-> {}]]
    ELSE [throws |-> FALSE,
          value  |-> [type   |-> "object",
                      fields |-> DOMAIN TransactionData(e.amount),
                      object |-> TransactionData(e.amount)]]

\* ToString(undefined), the argument parseFloat sees for a missing amount
Undefined == <<"u", "n", "d", "e", "f", "i", "n", "e", "d">>

\* transaction.amount: a property read throws on null
ReadAmountThrows(v) == v.type = "null"
ReadAmount(v) ==
    IF v.type = "object" /\ "amount" \in v.fields THEN v.object.amount
    ELSE Undefined

\* transaction.customerId, ...: an identifier, or undefined
ReadField(v, name) ==
    IF v.type = "object" /\ name \in v.fields THEN v.object[name]
    ELSE "undefined"

\* calculate<X>RiskScore: Math.random() * 0.5, whatever the argument
\* variant: no score for a missing identifier (C13)
calculateRiskScore_byId(id, r) ==
    IF id = "undefined" THEN Num(0, 1) ELSE Mul(r, Num(5, 10))

calculateRiskScore(id, r) == Mul(r, Num(5, 10))

\* rnd: the six Math.random() results, in the order the calls are made
preprocessTransaction(v, rnd) ==
    [amount             |-> parseFloat(ReadAmount(v)),
     customerRiskScore  |-> calculateRiskScore(ReadField(v, "customerId"), rnd[1]),
     merchantRiskScore  |-> calculateRiskScore(ReadField(v, "merchantId"), rnd[2]),
     locationRiskScore  |-> calculateRiskScore(ReadField(v, "location"), rnd[3]),
     deviceRiskScore    |-> calculateRiskScore(ReadField(v, "deviceId"), rnd[4]),
     ipRiskScore        |-> calculateRiskScore(ReadField(v, "ipAddress"), rnd[5]),
     timeOfDayRiskScore |-> calculateRiskScore(ReadField(v, "timestamp"), rnd[6])]

\* variant: the two amount factors are exchanged (C16)
classicalRiskScore_swapped(features) ==
    Add(Add(Add(Add(Add(Add(
        Mul(Num(4, 10), IF Gt(features.amount, Num(1000, 1))
                        THEN Num(3, 10) ELSE Num(7, 10)),
        Mul(Num(15, 100), features.customerRiskScore)),
        Mul(Num(15, 100), features.merchantRiskScore)),
        Mul(Num(1, 10), features.locationRiskScore)),
        Mul(Num(1, 10), features.deviceRiskScore)),
        Mul(Num(5, 100), features.ipRiskScore)),
        Mul(Num(5, 100), features.timeOfDayRiskScore))

classicalRiskScore(features) ==
    Add(Add(Add(Add(Add(Add(
        Mul(Num(4, 10), IF Gt(features.amount, Num(1000, 1))
                        THEN Num(7, 10) ELSE Num(3, 10)),
        Mul(Num(15, 100), features.customerRiskScore)),
        Mul(Num(15, 100), features.merchantRiskScore)),
        Mul(Num(1, 10), features.locationRiskScore)),
        Mul(Num(1, 10), features.deviceRiskScore)),
        Mul(Num(5, 100), features.ipRiskScore)),
        Mul(Num(5, 100), features.timeOfDayRiskScore))

\* variant: the fraud threshold is 0.3 instead of 0.6 (C15)
runClassicalMLModel_lowThreshold(features, r) ==
    LET riskScore == classicalRiskScore(features)
    IN  [isFraudulent    |-> Gt(riskScore, Num(3, 10)),
         confidenceScore |-> IF Gt(riskScore, Num(3, 10)) THEN riskScore
                             ELSE Sub(Num(1, 1), riskScore),
         processingTime  |-> Add(Num(50, 1), Mul(r, Num(30, 1)))]

runClassicalMLModel(features, r) ==
    LET riskScore == classicalRiskScore(features)
    IN  [isFraudulent    |-> Gt(riskScore, Num(6, 10)),
         confidenceScore |-> IF Gt(riskScore, Num(6, 10)) THEN riskScore
                             ELSE Sub(Num(1, 1), riskScore),
         processingTime  |-> Add(Num(50, 1), Mul(r, Num(30, 1)))]

\* Math.sin and Math.cos are irrational-valued; they are modelled by
\* Bhaskara's rational approximations (absolute error below 0.002 on the
\* arguments the code uses), rounded down to 1/TrigResolution.  Both are
\* exact at 0: sin(0) = 0 and cos(0) = 1.
TrigResolution == 1000

Floor(a, res) == Num((a.num * res) \div a.den, res)

\* Math.sin(x * Math.PI) for 0 <= x <= 1
MathSinPi(x) ==
    LET p == Mul(x, Sub(Num(1, 1), x))
    IN  Floor(Div(Mul(Num(16, 1), p), Sub(Num(5, 1), Mul(Num(4, 1), p))),
              TrigResolution)

\* Math.cos(x * Math.PI) for -1/2 <= x <= 1/2
MathCosPi(x) ==
    LET q == Mul(x, x)
    IN  Floor(Div(Sub(Num(1, 1), Mul(Num(4, 1), q)), Add(Num(1, 1), q)),
              TrigResolution)

calculateQuantumRiskScore(features) ==
    LET baseScore ==
            Add(Add(Add(Add(Add(Add(
                Mul(Num(3, 10), IF Gt(features.amount, Num(1000, 1))
                                THEN Num(8, 10) ELSE Num(4, 10)),
                Mul(Num(2, 10), features.customerRiskScore)),
                Mul(Num(2, 10), features.merchantRiskScore)),
                Mul(Num(1, 10), features.locationRiskScore)),
                Mul(Num(1, 10), features.deviceRiskScore)),
                Mul(Num(5, 100), features.ipRiskScore)),
                Mul(Num(5, 100), features.timeOfDayRiskScore))
        nonLinearComponent ==
            Add(Mul(MathSinPi(Mul(features.customerRiskScore,
                                  features.merchantRiskScore)), Num(1, 10)),
                Mul(MathCosPi(Mul(features.locationRiskScore,
                                  features.timeOfDayRiskScore)), Num(1, 10)))
    IN  MathMin(MathMax(Add(baseScore, nonLinearComponent), Num(0, 1)), Num(1, 1))

\* the object runQuantumAnnealingSolver returns for a risk score
\* variant: the confidence is the score itself on both arms (C17)
quantumPrediction_rawConfidence(quantumRiskScore, r) ==
    [isFraudulent   |-> Gt(quantumRiskScore, Num(5, 10)),
     confidence     |-> Mul(quantumRiskScore, Num(100, 1)),
     processingTime |-> Add(Num(150, 1), Mul(r, Num(100, 1)))]

quantumPrediction(quantumRiskScore, r) ==
    [isFraudulent   |-> Gt(quantumRiskScore, Num(5, 10)),
     confidence     |-> IF Gt(quantumRiskScore, Num(5, 10))
                        THEN Mul(quantumRiskScore, Num(100, 1))
                        ELSE Mul(Sub(Num(1, 1), quantumRiskScore), Num(100, 1)),
     processingTime |-> Add(Num(150, 1), Mul(r, Num(100, 1)))]

\* the part of runQuantumAnnealingSolver after its 200 ms timer
runQuantumAnnealingSolver(features, r) ==
    quantumPrediction(calculateQuantumRiskScore(features), r)

\* the gate of handler (line 58): is the quantum stage needed?
\* variant: the comparison is reversed (C8)
needsQuantum_inverted(mlPrediction) ==
    Gt(mlPrediction.confidenceScore, Num(85, 100))

needsQuantum(mlPrediction) == Lt(mlPrediction.confidenceScore, Num(85, 100))

quantumFinalResult(quantumResult) ==
    [isFraudulent        |-> quantumResult.isFraudulent,
     confidence          |-> quantumResult.confidence,
     processingTime      |-> quantumResult.processingTime,
     quantumContribution |-> Num(75, 1)]

classicalFinalResult(mlPrediction) ==
    [isFraudulent        |-> mlPrediction.isFraudulent,
     confidence          |-> Mul(mlPrediction.confidenceScore, Num(100, 1)),
     processingTime      |-> mlPrediction.processingTime,
     quantumContribution |-> Num(25, 1)]

\* JSON.stringify of a number: NaN is written as null
JsonNumber(x) ==
    IF x.nan THEN [null |-> TRUE, num |-> 0, den |-> 1]
    ELSE [null |-> FALSE, num |-> x.num, den |-> x.den]

\* JSON.stringify(finalResult), as the JSON object it denotes
JSONstringify(r) ==
    [isFraudulent        |-> r.isFraudulent,
     confidence          |-> JsonNumber(r.confidence),
     processingTime      |-> JsonNumber(r.processingTime),
     quantumContribution |-> JsonNumber(r.quantumContribution)]

successResponse(finalResult) ==
    [statusCode |-> 200,
     headers    |-> "application/json",
     body       |-> JSONstringify(finalResult)]

\* the response of the catch block
\* variant: status 400 instead of 500 (C9)
errorResponse_400 ==
    [statusCode |-> 400,
     headers    |-> "application/json",
     body       |-> [error |-> "Failed to process transaction"]]

errorResponse ==
    [statusCode |-> 500,
     headers    |-> "application/json",
     body       |-> [error |-> "Failed to process transaction"]]

-----------------------------------------------------------------------------
(* State.  One call is modelled at a time: its frame (arguments, locals,   *)
(* the random draws it made, its return value) is the state, and the frame *)
(* is discarded before the next call starts.  An unset local is <<>>, a    *)
(* set one <<value>>.                                                      *)

VARIABLES
    pc,                \* "idle", "parsed", "preprocessed", "awaitQuantum", "done"
    entry,             \* "none", "detectFraud", "handler"
    rand,              \* the Math.random() results of the call so far
    transaction,       \* detectFraud: its argument
    result,            \* detectFraud: the value its promise resolves to
    event,             \* handler: its argument
    transactionData,   \* handler: local
    processedFeatures, \* handler: local
    mlPrediction,      \* handler: local
    quantumResult,     \* handler: local
    finalResult,       \* handler: local
    response,          \* handler: the value its promise resolves to
    dashTransactionData, \* dashboard: the state `transactionData`
    dashResult,          \* dashboard: the state `result` (null is <<>>)
    isProcessing,        \* dashboard: the state `isProcessing`
    handleDetectCalls,   \* dashboard: the handleDetect calls suspended at
                         \* their 2 s timer, oldest first, each with the
                         \* `transactionData` of its closure
    detection            \* dashboard: the detectFraud call of the handleDetect
                         \* that finished last (<<>> once another is started)

callVars == <<pc, entry, rand, transaction, result, event, transactionData,
              processedFeatures, mlPrediction, quantumResult, finalResult,
              response>>

dashVars == <<dashTransactionData, dashResult, isProcessing, handleDetectCalls,
              detection>>

vars == <<callVars, dashVars>>

Init ==
    /\ pc = "idle"
    /\ entry = "none"
    /\ rand = <<>>
    /\ transaction = <<>>
    /\ result = <<>>
    /\ event = <<>>
    /\ transactionData = <<>>
    /\ processedFeatures = <<>>
    /\ mlPrediction = <<>>
    /\ quantumResult = <<>>
    /\ finalResult = <<>>
    /\ response = <<>>
    /\ dashTransactionData = TransactionData(<<"1", "2", "5", "0", ".", "0", "0">>)
    /\ dashResult = <<>>
    /\ isProcessing = FALSE
    /\ handleDetectCalls = <<>>
    /\ detection = <<>>

handlerLocals == <<transactionData, processedFeatures, mlPrediction,
                   quantumResult, finalResult>>

\* a call of detectFraud(t): no await before its return, so one step
DetectFraud ==
    /\ pc = "idle"
    /\ \E t \in Transactions :
       \E r1 \in MathRandom(VerdictSteps) :
       \E r2 \in MathRandom(RandSteps) :
       \E r3 \in MathRandom(RandSteps) :
       \E r4 \in MathRandom(RandSteps) :
          /\ transaction' = <<t>>
          /\ rand' = <<r1, r2, r3, r4>>
          /\ result' = <<detectFraud(t, <<r1, r2, r3, r4>>)>>
    /\ entry' = "detectFraud"
    /\ pc' = "done"
    /\ UNCHANGED <<event, handlerLocals, response, dashVars>>

\* handler(event), line 47: JSON.parse(event.body), or the catch block
HandlerParse ==
    /\ pc = "idle"
    /\ entry' = "handler"
    /\ \E e \in Events :
          /\ event' = <<e>>
          /\ IF JSONparse(e).throws
             THEN /\ response' = <<errorResponse>>
                  /\ pc' = "done"
                  /\ UNCHANGED transactionData
             ELSE /\ transactionData' = <<JSONparse(e).value>>
                  /\ pc' = "parsed"
                  /\ UNCHANGED response
    /\ UNCHANGED <<rand, transaction, result, processedFeatures, mlPrediction,
                   quantumResult, finalResult, dashVars>>

\* handler, line 50: preprocessTransaction, or the catch block
\* variant: the amount is deleted from the transaction once parsed (C12)
HandlerPreprocess_deleteAmount ==
    /\ pc = "parsed"
    /\ IF ReadAmountThrows(transactionData[1])
       THEN /\ response' = <<errorResponse>>
            /\ pc' = "done"
            /\ UNCHANGED <<rand, processedFeatures, transactionData>>
       ELSE /\ \E r1, r2, r3, r4, r5, r6 \in MathRandom(SubSteps) :
                  /\ rand' = <<r1, r2, r3, r4, r5, r6>>
                  /\ processedFeatures' =
                        <<preprocessTransaction(transactionData[1],
                                                <<r1, r2, r3, r4, r5, r6>>)>>
            /\ transactionData' =
                  IF transactionData[1].type = "object"
                  THEN <<[transactionData[1] EXCEPT !.fields = @ \ {"amount"}]>>
                  ELSE transactionData
            /\ pc' = "preprocessed"
            /\ UNCHANGED response
    /\ UNCHANGED <<entry, transaction, result, event, mlPrediction,
                   quantumResult, finalResult, dashVars>>

HandlerPreprocess ==
    /\ pc = "parsed"
    /\ IF ReadAmountThrows(transactionData[1])
       THEN /\ response' = <<errorResponse>>
            /\ pc' = "done"
            /\ UNCHANGED <<rand, processedFeatures>>
       ELSE /\ \E r1, r2, r3, r4, r5, r6 \in MathRandom(SubSteps) :
                  /\ rand' = <<r1, r2, r3, r4, r5, r6>>
                  /\ processedFeatures' =
                        <<preprocessTransaction(transactionData[1],
                                                <<r1, r2, r3, r4, r5, r6>>)>>
            /\ pc' = "preprocessed"
            /\ UNCHANGED response
    /\ UNCHANGED <<entry, transaction, result, event, transactionData,
                   mlPrediction, quantumResult, finalResult, dashVars>>

\* handler, lines 53-89: the classical stage and the gate.  Either the
\* quantum stage is started and the call is suspended at its timer, or the
\* classical result is returned.
HandlerClassical ==
    /\ pc = "preprocessed"
    /\ \E r \in MathRandom(RandSteps) :
          \E ml \in {runClassicalMLModel(processedFeatures[1], r)} :
              /\ rand' = Append(rand, r)
              /\ mlPrediction' = <<ml>>
              /\ IF needsQuantum(ml)
                 THEN /\ pc' = "awaitQuantum"
                      /\ UNCHANGED <<finalResult, response>>
                 ELSE /\ finalResult' = <<classicalFinalResult(ml)>>
                      /\ response' = <<successResponse(classicalFinalResult(ml))>>
                      /\ pc' = "done"
    /\ UNCHANGED <<entry, transaction, result, event, transactionData,
                   processedFeatures, quantumResult, dashVars>>

\* the 200 ms timer of runQuantumAnnealingSolver fires: lines 154-160, then
\* handler resumes at line 63 and returns
HandlerQuantum ==
    /\ pc = "awaitQuantum"
    /\ \E r \in MathRandom(RandSteps) :
          \E q \in {runQuantumAnnealingSolver(processedFeatures[1], r)} :
              /\ rand' = Append(rand, r)
              /\ quantumResult' = <<q>>
              /\ finalResult' = <<quantumFinalResult(q)>>
              /\ response' = <<successResponse(quantumFinalResult(q))>>
    /\ pc' = "done"
    /\ UNCHANGED <<entry, transaction, result, event, transactionData,
                   processedFeatures, mlPrediction, dashVars>>

\* the caller has its value; the frame of the call is gone
Discard ==
    /\ pc = "done"
    /\ pc' = "idle"
    /\ entry' = "none"
    /\ rand' = <<>>
    /\ transaction' = <<>>
    /\ result' = <<>>
    /\ event' = <<>>
    /\ transactionData' = <<>>
    /\ processedFeatures' = <<>>
    /\ mlPrediction' = <<>>
    /\ quantumResult' = <<>>
    /\ finalResult' = <<>>
    /\ response' = <<>>
    /\ UNCHANGED dashVars

Next ==
    \/ DetectFraud
    \/ HandlerParse
    \/ HandlerPreprocess
    \/ HandlerClassical
    \/ HandlerQuantum
    \/ Discard

Spec == Init /\ [][Next]_vars

-----------------------------------------------------------------------------
(* The dashboard (FraudDetectionDashboard).  Its state is the three React  *)
(* states; an event handler runs to its first await and a continuation to  *)
(* its end without another event in between, and the state updates of one  *)
(* handler are rendered together, so each is one step.  It is a            *)
(* specification of its own, DashSpec.                                     *)

\* the most handleDetect calls the model lets be suspended at once
MaxPending == 2

\* what the user types into the amount field: "1250.00", "5000.01", "abc"
DashAmounts ==
    { <<"1", "2", "5", "0", ".", "0", "0">>,
      <<"5", "0", "0", "0", ".", "0", "1">>,
      <<"a", "b", "c">> }

DashMerchantIds == {"MERCH-8765", "MERCH-0001"}

\* e.target.name and e.target.value of a change event
InputNames == {"amount", "merchantId"}
InputValues(name) == IF name = "amount" THEN DashAmounts ELSE DashMerchantIds

\* every value the state `transactionData` takes
DashTransactions ==
    { [TransactionData(a) EXCEPT !.merchantId = m] :
          a \in DashAmounts, m \in DashMerchantIds }

\* the values the promise of detectFraud(t) can resolve to, over all
\* outcomes of its four draws
detectFraudResults ==
    [t \in DashTransactions |->
        { detectFraud(t, <<r1, r2, r3, r4>>) :
              r1 \in MathRandom(VerdictSteps), r2 \in MathRandom(RandSteps),
              r3 \in MathRandom(RandSteps), r4 \in MathRandom(RandSteps) }]

\* handleInputChange: {...transactionData, [e.target.name]: e.target.value}
HandleInputChange ==
    /\ \E name \in InputNames : \E value \in InputValues(name) :
          dashTransactionData' = [dashTransactionData EXCEPT ![name] = value]
    /\ UNCHANGED <<dashResult, isProcessing, handleDetectCalls, detection,
                   callVars>>

\* the attribute disabled={isProcessing} of the Analyze button
\* variant: the button is never disabled (C14)
AnalyzeDisabled_never == FALSE

AnalyzeDisabled == isProcessing

\* a click on Analyze: handleDetect up to its await of the 2 s timer
HandleDetectStart ==
    /\ ~AnalyzeDisabled
    /\ Len(handleDetectCalls) < MaxPending
    /\ isProcessing' = TRUE
    /\ handleDetectCalls' =
          Append(handleDetectCalls, [transactionData |-> dashTransactionData])
    /\ detection' = <<>>
    /\ UNCHANGED <<dashTransactionData, dashResult, callVars>>

\* the argument of detectFraud(transactionData) in handleDetect: the
\* `transactionData` of the closure
\* variant: the state as it is when the timer fires (C19)
detectArgument_current(closure) == dashTransactionData

detectArgument(closure) == closure.transactionData

\* the timer of the oldest suspended handleDetect fires and detectFraud
\* resolves: setResult(detectionResult), then the finally block
HandleDetectResolve ==
    /\ handleDetectCalls # <<>>
    /\ LET closure == Head(handleDetectCalls)
           t       == detectArgument(closure)
       IN  \E detectionResult \in detectFraudResults[t] :
              /\ detection' =
                    <<[transactionData |-> closure.transactionData,
                       transaction     |-> t,
                       detectionResult |-> <<detectionResult>>]>>
              /\ dashResult' = <<detectionResult>>
    /\ isProcessing' = FALSE
    /\ handleDetectCalls' = Tail(handleDetectCalls)
    /\ UNCHANGED <<dashTransactionData, callVars>>

\* the timer fires and the promise of detectFraud rejects: the finally
\* block runs and the rejection leaves handleDetect.  (The detectFraud of
\* this repository does not reject for a TransactionData; handleDetect is
\* written for any promise.)
\* variant: no finally block (C18)
HandleDetectReject_noFinally ==
    /\ handleDetectCalls # <<>>
    /\ detection' =
          <<[transactionData |-> Head(handleDetectCalls).transactionData,
             transaction     |-> detectArgument(Head(handleDetectCalls)),
             detectionResult |-> <<>>]>>
    /\ handleDetectCalls' = Tail(handleDetectCalls)
    /\ UNCHANGED <<dashTransactionData, dashResult, isProcessing, callVars>>

HandleDetectReject ==
    /\ handleDetectCalls # <<>>
    /\ detection' =
          <<[transactionData |-> Head(handleDetectCalls).transactionData,
             transaction     |-> detectArgument(Head(handleDetectCalls)),
             detectionResult |-> <<>>]>>
    /\ isProcessing' = FALSE
    /\ handleDetectCalls' = Tail(handleDetectCalls)
    /\ UNCHANGED <<dashTransactionData, dashResult, callVars>>

DashNext ==
    \/ HandleInputChange
    \/ HandleDetectStart
    \/ HandleDetectResolve
    \/ HandleDetectReject

DashSpec == Init /\ [][DashNext]_vars

\* a timer that was set fires, and the promise of detectFraud settles
DashFairSpec ==
    DashSpec /\ WF_vars(HandleDetectResolve \/ HandleDetectReject)

-----------------------------------------------------------------------------
(* Vocabulary of the properties.                                           *)

\* lo <= x <= hi for a number x and integers lo, hi
InRange(x, lo, hi) == Ge(x, Num(lo, 1)) /\ Le(x, Num(hi, 1))

\* lo <= j <= hi for a JSON number j (null is in no range)
JsonInRange(j, lo, hi) ==
    ~j.null /\ lo * j.den =< j.num /\ j.num =< hi * j.den
JsonPositive(j) == ~j.null /\ j.num > 0

\* a call of detectFraud has returned
DetectDone == pc = "done" /\ entry = "detectFraud"
\* the amount detectFraud scored
DetectAmount == parseFloat(transaction[1].amount)

\* a call of handler has returned; has returned a 200 response
HandlerDone == pc = "done" /\ entry = "handler"
HandlerOk == HandlerDone /\ response # <<>> /\ response[1].statusCode = 200

\* the amount string does not denote a non-negative decimal number
Malformed(s) == parseFloat(s).nan \/ Lt(parseFloat(s), Num(0, 1))

ResultFields ==
    {"isFraudulent", "confidence", "processingTime", "quantumContribution"}

-----------------------------------------------------------------------------
(* C1: for every amount >= 0 and every outcome of the random draws, the    *)
(* result of detectFraud and the body of a 200 response of handler have    *)
(* confidence in [0,100], quantumContribution in [0,100] and               *)
(* processingTime > 0.                                                     *)
C1_ResultWithinBounds ==
    /\ (DetectDone /\ Ge(DetectAmount, Num(0, 1))) =>
          /\ InRange(result[1].confidence, 0, 100)
          /\ InRange(result[1].quantumContribution, 0, 100)
          /\ Gt(result[1].processingTime, Num(0, 1))
    /\ (HandlerOk /\ Ge(processedFeatures[1].amount, Num(0, 1))) =>
          /\ JsonInRange(response[1].body.confidence, 0, 100)
          /\ JsonInRange(response[1].body.quantumContribution, 0, 100)
          /\ JsonPositive(response[1].body.processingTime)

\* a fraudulent low-tier verdict of detectFraud at the top of the grid
C1_Witness ==
    /\ DetectDone
    /\ InRange(DetectAmount, 0, 1000)
    /\ result[1].isFraudulent
    /\ rand[2] = Num(RandSteps - 1, RandSteps)

(* C2: a malformed amount makes detectFraud and handler fail; no           *)
(* DetectionResult is returned for it.  (The code returns one.)            *)
C2_MalformedAmountRejected ==
    /\ (DetectDone /\ Malformed(transaction[1].amount)) => result = <<>>
    /\ (HandlerDone /\ event[1].kind = "object" /\ Malformed(event[1].amount)) =>
          response[1].statusCode # 200

(* C3: in detectFraud, for amount > 5000, confidence is in [85,95] when    *)
(* isFraudulent and in [75,90] when not.                                   *)
C3_HighTierConfidence ==
    (DetectDone /\ Gt(DetectAmount, Num(5000, 1))) =>
        IF result[1].isFraudulent
        THEN InRange(result[1].confidence, 85, 95)
        ELSE InRange(result[1].confidence, 75, 90)

C3_Witness ==
    /\ DetectDone
    /\ Gt(DetectAmount, Num(5000, 1))
    /\ result[1].isFraudulent
    /\ result[1].confidence = Num(85, 1)

(* C4: in detectFraud, for 1000 < amount <= 5000 (5000 and 1250.00         *)
(* included), confidence is in [90,95] when isFraudulent and in [85,95]    *)
(* when not.                                                               *)
C4_MediumTierConfidence ==
    (DetectDone /\ Gt(DetectAmount, Num(1000, 1))
                /\ Le(DetectAmount, Num(5000, 1))) =>
        IF result[1].isFraudulent
        THEN InRange(result[1].confidence, 90, 95)
        ELSE InRange(result[1].confidence, 85, 95)

\* the amount is exactly 5000
C4_Witness ==
    /\ DetectDone
    /\ DetectAmount = Num(5000, 1)
    /\ ~result[1].isFraudulent
    /\ InRange(result[1].confidence, 85, 95)

(* C5: in detectFraud, for 0 <= amount <= 1000 (1000 and 50 included),     *)
(* confidence is in [95,100] when isFraudulent and in [90,98] when not.    *)
C5_LowTierConfidence ==
    (DetectDone /\ InRange(DetectAmount, 0, 1000)) =>
        IF result[1].isFraudulent
        THEN InRange(result[1].confidence, 95, 100)
        ELSE InRange(result[1].confidence, 90, 98)

\* the amount is exactly 1000
C5_Witness ==
    /\ DetectDone
    /\ DetectAmount = Num(1000, 1)
    /\ ~result[1].isFraudulent
    /\ InRange(result[1].confidence, 90, 98)

(* C6: in detectFraud, isFraudulent is true exactly when the first draw r  *)
(* is > 0.7 for amount > 5000, > 0.9 for 1000 < amount <= 5000 and > 0.95  *)
(* for amount <= 1000.                                                     *)
C6_VerdictThreshold ==
    DetectDone =>
        /\ Gt(DetectAmount, Num(5000, 1)) =>
              (result[1].isFraudulent <=> Gt(rand[1], Num(7, 10)))
        /\ (Gt(DetectAmount, Num(1000, 1)) /\ Le(DetectAmount, Num(5000, 1))) =>
              (result[1].isFraudulent <=> Gt(rand[1], Num(9, 10)))
        /\ Le(DetectAmount, Num(1000, 1)) =>
              (result[1].isFraudulent <=> Gt(rand[1], Num(95, 100)))

\* the draw is exactly the threshold of the tier: not fraudulent
C6_Witness ==
    /\ DetectDone
    /\ Gt(DetectAmount, Num(5000, 1))
    /\ rand[1] = Num(7, 10)
    /\ ~result[1].isFraudulent

(* C7: for every input and every verdict, detectFraud returns              *)
(* processingTime in [100,250] and quantumContribution in [60,85], each a  *)
(* function of its own draw alone: 100 + 150 r3 and 60 + 25 r4.            *)
C7_TimeAndContribution ==
    DetectDone =>
        /\ InRange(result[1].processingTime, 100, 250)
        /\ InRange(result[1].quantumContribution, 60, 85)
        /\ result[1].processingTime.den * rand[3].den * 100
              + result[1].processingTime.den * rand[3].num * 150
           = result[1].processingTime.num * rand[3].den
        /\ result[1].quantumContribution.den * rand[4].den * 60
              + result[1].quantumContribution.den * rand[4].num * 25
           = result[1].quantumContribution.num * rand[4].den

\* an unparseable amount, a fraudulent verdict
C7_Witness ==
    /\ DetectDone
    /\ DetectAmount.nan
    /\ result[1].isFraudulent
    /\ result[1].quantumContribution = Num(60, 1)

(* C8: in handler the quantum stage runs iff the classical                 *)
(* confidenceScore is < 0.85, and only after the classical stage has       *)
(* completed.  Then the response carries the quantum stage's isFraudulent, *)
(* confidence and processingTime with quantumContribution 75; otherwise    *)
(* the quantum stage is never invoked and the response carries the         *)
(* classical isFraudulent, confidenceScore * 100 and processingTime with   *)
(* quantumContribution 25.                                                 *)
C8_QuantumGate ==
    /\ (pc = "awaitQuantum" \/ quantumResult # <<>>) =>
          /\ mlPrediction # <<>>
          /\ Lt(mlPrediction[1].confidenceScore, Num(85, 100))
    /\ pc = "awaitQuantum" => (quantumResult = <<>> /\ response = <<>>)
    /\ HandlerOk =>
          /\ mlPrediction # <<>>
          /\ IF Lt(mlPrediction[1].confidenceScore, Num(85, 100))
             THEN /\ quantumResult # <<>>
                  /\ response[1].body.isFraudulent = quantumResult[1].isFraudulent
                  /\ response[1].body.confidence
                        = JsonNumber(quantumResult[1].confidence)
                  /\ response[1].body.processingTime
                        = JsonNumber(quantumResult[1].processingTime)
                  /\ response[1].body.quantumContribution = JsonNumber(Num(75, 1))
             ELSE /\ quantumResult = <<>>
                  /\ response[1].body.isFraudulent = mlPrediction[1].isFraudulent
                  /\ response[1].body.confidence
                        = JsonNumber(Mul(mlPrediction[1].confidenceScore, Num(100, 1)))
                  /\ response[1].body.processingTime
                        = JsonNumber(mlPrediction[1].processingTime)
                  /\ response[1].body.quantumContribution = JsonNumber(Num(25, 1))

\* a 200 response of the classical branch
C8_Witness ==
    /\ HandlerOk
    /\ quantumResult = <<>>
    /\ Ge(mlPrediction[1].confidenceScore, Num(85, 100))
    /\ response[1].body.quantumContribution = JsonNumber(Num(25, 1))

(* C9: every invocation of handler returns a response and never throws:    *)
(* a call that has not returned is at a step that can be taken, and a call *)
(* that has returned has a response, 200 with a body holding the four      *)
(* DetectionResult fields, or 500 with a body {error: string}; a body that *)
(* is not valid JSON yields the 500 response.                              *)
C9_AlwaysResponds ==
    /\ (entry = "handler" /\ pc # "done") =>
          \/ pc = "parsed" /\ transactionData # <<>>
          \/ pc = "preprocessed" /\ processedFeatures # <<>>
          \/ pc = "awaitQuantum" /\ processedFeatures # <<>>
    /\ HandlerDone =>
          /\ response # <<>>
          /\ \/ /\ response[1].statusCode = 200
                /\ DOMAIN response[1].body = ResultFields
                /\ response[1].body.isFraudulent \in BOOLEAN
                /\ ~response[1].body.confidence.null
                /\ ~response[1].body.processingTime.null
                /\ ~response[1].body.quantumContribution.null
             \/ /\ response[1].statusCode = 500
                /\ DOMAIN response[1].body = {"error"}
                /\ response[1].body.error \in STRING
          /\ event[1].kind \in {"noBody", "badJson"} =>
                response[1].statusCode = 500

\* a body that is not JSON, answered with 500
C9_Witness ==
    /\ HandlerDone
    /\ event[1].kind = "badJson"
    /\ response[1].statusCode = 500

(* C10: handler answers invalid input with a descriptive message and a     *)
(* 4xx status, and an internal failure with a generic message and a 5xx    *)
(* status.  (The code answers every failure with the same 500 response and *)
(* an unparseable amount with 200.)                                        *)
GenericMessage == "Failed to process transaction"

InvalidInput(e) ==
    \/ e.kind \in {"noEvent", "noBody", "badJson", "jsonNull", "jsonPrimitive",
                   "objectNoAmount"}
    \/ e.kind = "object" /\ Malformed(e.amount)

C10_ErrorClassesDistinguished ==
    (HandlerDone /\ InvalidInput(event[1])) =>
        /\ response[1].statusCode \in 400..499
        /\ response[1].body.error # GenericMessage

(* C13: in every handler call the feature vector built by                  *)
(* preprocessTransaction holds the six risk sub-scores, each within [0,1]  *)
(* and each drawn in that call: the i-th sub-score is half the i-th draw   *)
(* of the call, whether or not the transaction carries the identifier.     *)
SubScores ==
    <<"customerRiskScore", "merchantRiskScore", "locationRiskScore",
      "deviceRiskScore", "ipRiskScore", "timeOfDayRiskScore">>

C13_FreshSubScores ==
    processedFeatures # <<>> =>
        /\ Len(rand) >= 6
        /\ \A i \in 1..6 :
              /\ SubScores[i] \in DOMAIN processedFeatures[1]
              /\ InRange(processedFeatures[1][SubScores[i]], 0, 1)
              /\ processedFeatures[1][SubScores[i]] = Mul(rand[i], Num(1, 2))

\* a transaction without identifiers has a positive customer sub-score
C13_Witness ==
    /\ pc = "preprocessed"
    /\ event[1].kind = "objectNoAmount"
    /\ Gt(processedFeatures[1].customerRiskScore, Num(0, 1))

(* C15: the classical stage of handler never labels a transaction          *)
(* fraudulent: its riskScore is below 0.6 for every amount and every       *)
(* sub-score below 0.5 (the score is increasing in the sub-scores, so the  *)
(* bound is evaluated at 0.5 too), and every 200 response with             *)
(* isFraudulent true has quantumContribution 75.                           *)
SupFeatures ==
    [amount             |-> Num(500001, 100),
     customerRiskScore  |-> Num(1, 2),
     merchantRiskScore  |-> Num(1, 2),
     locationRiskScore  |-> Num(1, 2),
     deviceRiskScore    |-> Num(1, 2),
     ipRiskScore        |-> Num(1, 2),
     timeOfDayRiskScore |-> Num(1, 2)]

SupRiskScore == classicalRiskScore(SupFeatures)

C15_ClassicalNeverFraud ==
    /\ Lt(SupRiskScore, Num(6, 10))
    /\ mlPrediction # <<>> =>
          /\ Lt(classicalRiskScore(processedFeatures[1]), Num(6, 10))
          /\ ~mlPrediction[1].isFraudulent
    /\ (HandlerOk /\ response[1].body.isFraudulent) =>
          response[1].body.quantumContribution = JsonNumber(Num(75, 1))

\* a 200 response that reports fraud: the verdict of the quantum stage
C15_Witness ==
    /\ HandlerOk
    /\ response[1].body.isFraudulent
    /\ ~mlPrediction[1].isFraudulent
    /\ response[1].body.quantumContribution = JsonNumber(Num(75, 1))

(* C16: for every amount > 1000 handler takes the quantum branch: the      *)
(* classical confidenceScore is at most 0.72, the quantum stage is started *)
(* and the response has quantumContribution 75; a response with            *)
(* quantumContribution 25 has an amount <= 1000 or an unparseable one.     *)
C16_LargeAmountsGoQuantum ==
    /\ (mlPrediction # <<>> /\ Gt(processedFeatures[1].amount, Num(1000, 1))) =>
          /\ Le(mlPrediction[1].confidenceScore, Num(72, 100))
          /\ pc = "awaitQuantum" \/ quantumResult # <<>>
          /\ HandlerOk =>
                response[1].body.quantumContribution = JsonNumber(Num(75, 1))
    /\ (HandlerOk /\ response[1].body.quantumContribution = JsonNumber(Num(25, 1))) =>
          \/ processedFeatures[1].amount.nan
          \/ Le(processedFeatures[1].amount, Num(1000, 1))

\* an amount above 1000 at the largest classical confidence, 0.72
C16_Witness ==
    /\ HandlerOk
    /\ Gt(processedFeatures[1].amount, Num(1000, 1))
    /\ mlPrediction[1].confidenceScore = Num(72, 100)
    /\ response[1].body.quantumContribution = JsonNumber(Num(75, 1))

(* C17: on the quantum branch the risk score lies in [0,1], isFraudulent   *)
(* is true exactly when the score is > 0.5 and confidence is               *)
(* 100 * max(score, 1 - score), hence within [50,100]; a score of exactly  *)
(* 0.5 gives a non-fraud verdict with confidence 50.                       *)
ScoreOneHalf == { quantumPrediction(Num(1, 2), r) : r \in MathRandom(RandSteps) }

C17_QuantumVerdict ==
    /\ quantumResult # <<>> =>
          \A score \in {calculateQuantumRiskScore(processedFeatures[1])} :
              /\ InRange(score, 0, 1)
              /\ quantumResult[1].isFraudulent <=> Gt(score, Num(1, 2))
              /\ quantumResult[1].confidence =
                    Mul(Num(100, 1), MathMax(score, Sub(Num(1, 1), score)))
              /\ InRange(quantumResult[1].confidence, 50, 100)
    /\ \A q \in ScoreOneHalf :
          ~q.isFraudulent /\ q.confidence = Num(50, 1)

\* a quantum result below the threshold: not fraud, confidence above 50
C17_Witness ==
    /\ quantumResult # <<>>
    /\ ~quantumResult[1].isFraudulent
    /\ Gt(quantumResult[1].confidence, Num(50, 1))
    /\ Lt(calculateQuantumRiskScore(processedFeatures[1]), Num(1, 2))

-----------------------------------------------------------------------------
(* Vocabulary of the dashboard properties (steps of DashSpec).             *)

\* this step is a click on Analyze that starts a handleDetect
Clicked == Len(handleDetectCalls') > Len(handleDetectCalls)
\* this step is the end of a handleDetect
Settled == Len(handleDetectCalls') < Len(handleDetectCalls)

(* C14: in the dashboard at most one detection is in flight at any time    *)
(* and isProcessing is true exactly while one is; a detection starts only  *)
(* by a click made while none is in flight, and each detectFraud call ends *)
(* the one handleDetect that made it: a click is followed by exactly one   *)
(* call and no call is made again.                                         *)
C14_OneDetectionInFlight ==
    [][ /\ Len(handleDetectCalls') =< 1
        /\ isProcessing' <=> handleDetectCalls' # <<>>
        /\ Clicked =>
              /\ ~isProcessing
              /\ handleDetectCalls = <<>>
              /\ Len(handleDetectCalls') = 1
        /\ Settled =>
              /\ detection = <<>> /\ detection' # <<>>
              /\ handleDetectCalls' = <<>>
      ]_vars

\* a second detection is in flight, started after the first gave a result
C14_Witness ==
    /\ isProcessing
    /\ Len(handleDetectCalls) = 1
    /\ dashResult # <<>>

(* C18: in the dashboard every handleDetect that starts is followed by     *)
(* isProcessing being false again; the step that ends a handleDetect sets  *)
(* isProcessing to false, leaves result unchanged when detectFraud         *)
(* rejected and has set result to the detection result when it resolved.   *)
C18_ProcessingEnds ==
    /\ isProcessing ~> ~isProcessing
    /\ [][ Settled =>
              /\ ~isProcessing'
              /\ detection' # <<>>
              /\ IF detection'[1].detectionResult = <<>>
                 THEN dashResult' = dashResult
                 ELSE dashResult' = detection'[1].detectionResult
         ]_vars

\* a handleDetect has ended with a detection result, now the stored result
C18_Witness ==
    /\ ~isProcessing
    /\ detection # <<>>
    /\ detection[1].detectionResult # <<>>
    /\ dashResult = detection[1].detectionResult

(* C19: in the dashboard a detection scores the transaction data as it was *)
(* when Analyze was clicked: the click keeps the transactionData of that   *)
(* moment, an edit changes one field of transactionData and neither        *)
(* result, isProcessing nor a detection in flight, and the argument of     *)
(* detectFraud is the data kept at the click.                              *)
C19_ScoresDataAtClick ==
    [][ /\ Clicked =>
              handleDetectCalls'[Len(handleDetectCalls')].transactionData
                  = dashTransactionData
        /\ dashTransactionData' # dashTransactionData =>
              /\ DOMAIN dashTransactionData' = DOMAIN dashTransactionData
              /\ \E name \in InputNames :
                    \A f \in DOMAIN dashTransactionData \ {name} :
                        dashTransactionData'[f] = dashTransactionData[f]
              /\ UNCHANGED <<dashResult, isProcessing, handleDetectCalls>>
        /\ Settled =>
              /\ detection' # <<>>
              /\ detection'[1].transaction =
                    Head(handleDetectCalls).transactionData
              /\ dashTransactionData' = dashTransactionData
      ]_vars

\* during the delay the amount was edited: the data kept at the click
\* differs from the state
C19_Witness ==
    /\ isProcessing
    /\ handleDetectCalls # <<>>
    /\ Head(handleDetectCalls).transactionData.amount
          # dashTransactionData.amount

=============================================================================
